---- MODULE Spec2Model ----
(***************************************************************************)
(* Products REST API: router (validators -> handleInputErrors -> handler)  *)
(* and the six request handlers over the products table.                   *)
(*                                                                         *)
(* Every value that arrives in a request (path segment, body field) is     *)
(* kept in its string form, a sequence of characters: that is the form the *)
(* validators inspect.  A body field that may be missing is an option: the *)
(* empty sequence when absent, a one-element sequence when present.        *)
(***************************************************************************)
EXTENDS Integers, Sequences, FiniteSets, TLC

VARIABLES store, nextId, pending, req, res, console, processUp, lastPatch, gone

vars == <<store, nextId, pending, req, res, console, processUp, lastPatch, gone>>

(* ----------------------------- bounds --------------------------------- *)

\* Largest id the table's sequence hands out, and largest id a request names.
MaxId == 2

\* Number of requests that can be suspended at a persistence call at once.
MaxInFlight == 2

Ids == 1..MaxId

Reqs == 1..MaxInFlight

(* ------------------------ strings and numbers ------------------------- *)

DigitChars == <<"0", "1", "2", "3", "4", "5", "6", "7", "8", "9">>

IsDigit(c) == \E k \in 1..10 : DigitChars[k] = c

DigitVal(c) == IF IsDigit(c) THEN (CHOOSE k \in 1..10 : DigitChars[k] = c) - 1 ELSE 0

AllDigits(s) == \A k \in 1..Len(s) : IsDigit(s[k])

HasSign(s) == Len(s) > 0 /\ s[1] \in {"+", "-"}

Unsigned(s) == IF HasSign(s) THEN Tail(s) ELSE s

\* The decimal string of a natural number (String(n) of the router's inputs).
RECURSIVE NatStr(_)
NatStr(n) == IF n < 10 THEN <<DigitChars[n + 1]>>
             ELSE NatStr(n \div 10) \o <<DigitChars[(n % 10) + 1]>>

\* Value of a digit string, most significant digit first.
RECURSIVE DigitsVal(_)
DigitsVal(s) == IF s = <<>> THEN 0
                ELSE 10 * DigitsVal(SubSeq(s, 1, Len(s) - 1)) + DigitVal(s[Len(s)])

\* The integer a signed digit string denotes: how the table reads the id it is
\* handed by findByPk, and how a numeric body field is stored and compared.
ToNumber(s) == IF HasSign(s) /\ s[1] = "-" THEN 0 - DigitsVal(Unsigned(s))
               ELSE DigitsVal(Unsigned(s))

TrueStr == <<"t", "r", "u", "e">>

FalseStr == <<"f", "a", "l", "s", "e">>

YesStr == <<"y", "e", "s">>

\* The boolean a value accepted as boolean is stored as.
ToBool(s) == s \in {TrueStr, <<"1">>}

(* ----------------------------- validators ----------------------------- *)

\* The string a validator sees for an optional field: absent reads as "".
FieldStr(opt) == IF opt = <<>> THEN <<>> ELSE opt[1]

\* isInt(): optional sign, then one or more digits.
isInt(s) == Len(Unsigned(s)) > 0 /\ AllDigits(Unsigned(s))

\* isNumeric(): optional sign, optional "digits." prefix, one or more digits.
isNumeric(s) ==
    LET u == Unsigned(s)
        dots == {k \in 1..Len(u) : u[k] = "."}
    IN  IF dots = {} THEN Len(u) > 0 /\ AllDigits(u)
        ELSE LET d == CHOOSE k \in dots : \A j \in dots : k <= j
             IN  /\ AllDigits(SubSeq(u, 1, d - 1))
                 /\ Len(u) > d
                 /\ AllDigits(SubSeq(u, d + 1, Len(u)))

\* notEmpty(): the string form has at least one character.
notEmpty(s) == Len(s) > 0

\* isBoolean(): one of the four accepted spellings.
isBoolean(s) == s \in {TrueStr, FalseStr, <<"1">>, <<"0">>}

\* Variant of GreaterThanZero: the comparison written as value >= 0.
NotNegative(s) == isNumeric(s) /\ s[1] # "-"

\* custom(value => value > 0): the comparison turns the value into a number;
\* a numeric spelling is above zero when it has no minus sign and a digit
\* other than 0, and a value that is no number compares false.
GreaterThanZero(s) ==
    /\ isNumeric(s)
    /\ s[1] # "-"
    /\ \E k \in 1..Len(s) : IsDigit(s[k]) /\ s[k] # "0"

Err(path, msg) == <<[path |-> path, msg |-> msg]>>

Check(ok, path, msg) == IF ok THEN <<>> ELSE Err(path, msg)

\* param("id").isInt().withMessage("ID no valido")
IdRule(seg) == Check(isInt(seg), "id", "ID no valido")

\* body("name").notEmpty()
NameRule(b) ==
    Check(notEmpty(FieldStr(b.name)), "name", "El nombre del Producto no puede ir vacio")

\* body("price").isNumeric().notEmpty().custom(value => value > 0); every
\* validator of the chain that fails adds its own entry.
PriceRule(b, numericMsg) ==
    LET s == FieldStr(b.price)
    IN  Check(isNumeric(s), "price", numericMsg)
        \o Check(notEmpty(s), "price", "El precio del Producto no puede ir vacio")
        \o Check(GreaterThanZero(s), "price", "El precio no es valido")

\* body("availability").isBoolean()
AvailabilityRule(b) ==
    Check(isBoolean(FieldStr(b.availability)), "availability",
          "Valor para disponibilidad no valido")

\* The validator chains of the five validated routes.
GetByIdErrors(seg) == IdRule(seg)

PostErrors(b) == NameRule(b) \o PriceRule(b, "valor no valido")

PutErrors(seg, b) ==
    IdRule(seg) \o NameRule(b) \o PriceRule(b, "Valor no valido") \o AvailabilityRule(b)

PatchErrors(seg) == IdRule(seg)

DeleteErrors(seg) == IdRule(seg)

(* ------------------------------ inputs -------------------------------- *)

\* Path segments a client may put in place of :id: the ids of the table, one
\* id past them, and segments that are no plain integer.
Segments ==
    {NatStr(i) : i \in 1..(MaxId + 1)}
    \cup {<<"+", "1">>, <<"-", "1">>, <<"a">>, <<"1", ".", "5">>}

\* Name and price of the products clients send.
Catalogue ==
    {[name |-> <<"A">>, price |-> <<"1">>], [name |-> <<"B">>, price |-> <<"2">>]}

BodyOf(item, availability, id) ==
    [name |-> <<item.name>>, price |-> <<item.price>>,
     availability |-> availability, id |-> id]

\* Bodies every rule of PUT accepts; the id field is absent or names a row.
FullBodies ==
    {BodyOf(item, a, i) : item \in Catalogue, a \in {<<TrueStr>>, <<FalseStr>>},
                          i \in {<<>>, <<NatStr(MaxId)>>}}

\* Bodies that leave availability out, as a creation request does.
PlainBodies ==
    {BodyOf(item, <<>>, i) : item \in Catalogue, i \in {<<>>, <<NatStr(MaxId)>>}}

BaseBody == BodyOf([name |-> <<"A">>, price |-> <<"1">>], <<TrueStr>>, <<>>)

\* Bodies with a missing, empty or ill-typed field.
OddBodies ==
    {[BaseBody EXCEPT !.name = <<>>],
     [BaseBody EXCEPT !.name = <<<<>>>>],
     [BaseBody EXCEPT !.price = <<>>],
     [BaseBody EXCEPT !.price = <<<<"0">>>>],
     [BaseBody EXCEPT !.price = <<<<"a">>>>],
     [BaseBody EXCEPT !.price = <<<<"-", "1">>>>],
     [BaseBody EXCEPT !.availability = <<YesStr>>],
     [BaseBody EXCEPT !.name = <<<<>>>>, !.price = <<<<"0">>>>,
                      !.availability = <<YesStr>>]}

\* JSON request bodies: the fields the routes read, each optional, and an id.
Bodies == FullBodies \cup PlainBodies \cup OddBodies

EmptyBody == [name |-> <<>>, price |-> <<>>, availability |-> <<>>, id |-> <<>>]

(* ----------------------- the products table --------------------------- *)

\* Column default of availability in the Product model.
DefaultAvailability == TRUE

NoRow == [id |-> 0, name |-> <<>>, price |-> 0, availability |-> FALSE]

\* store is the table's rows in the order they were inserted.
IdsOf(rows) == {rows[k].id : k \in 1..Len(rows)}

RowsOf(rows) == {rows[k] : k \in 1..Len(rows)}

\* Variant of findByPk: the key is ignored and the first row returned.
findFirst(rows, id) == IF rows # <<>> THEN rows[1] ELSE NoRow

\* Product.findByPk(id): the row with that primary key, or null (NoRow).
findByPk(rows, id) ==
    IF id \in IdsOf(rows) THEN CHOOSE p \in RowsOf(rows) : p.id = id ELSE NoRow

\* Variant of findAllDesc: no order clause, the rows come as stored.
findAllUnordered(rows) == rows

\* Product.findAll({order: [["id", "DESC"]]}): every row, largest id first.
RECURSIVE findAllDesc(_)
findAllDesc(rows) ==
    IF rows = <<>> THEN <<>>
    ELSE LET top == CHOOSE p \in RowsOf(rows) : \A q \in RowsOf(rows) : q.id <= p.id
         IN  <<top>> \o findAllDesc(SelectSeq(rows, LAMBDA q : q # top))

\* The row Product.create(req.body) builds: every attribute the body carries
\* is taken from it, a missing availability gets the column default, a missing
\* id the next value of the table's sequence.
NewRow(b, seq) ==
    [id |-> IF b.id = <<>> THEN seq ELSE ToNumber(b.id[1]),
     name |-> FieldStr(b.name),
     price |-> ToNumber(FieldStr(b.price)),
     availability |-> IF b.availability = <<>> THEN DefaultAvailability
                      ELSE ToBool(b.availability[1])]

\* The insert is refused when the price is no number, the availability no
\* boolean, or the primary key is taken.
InsertAccepted(rows, b, row) ==
    /\ isNumeric(FieldStr(b.price))
    /\ b.availability = <<>> \/ b.availability[1] \in {TrueStr, FalseStr}
    /\ row.id \notin IdsOf(rows)

\* product.update(req.body): the body's attributes are set on the instance,
\* except the primary key of a persisted instance, which set() leaves alone.
SetFromBody(inst, b) ==
    [id |-> inst.id,
     name |-> FieldStr(b.name),
     price |-> ToNumber(FieldStr(b.price)),
     availability |-> ToBool(FieldStr(b.availability))]

\* ... and written to the row with the instance's primary key, if it is still
\* there (UPDATE ... WHERE id = ?).
WriteFields(rows, inst) ==
    [k \in 1..Len(rows) |-> IF rows[k].id = inst.id THEN inst ELSE rows[k]]

\* Variant of Toggled: availability is switched off instead of negated.
SwitchedOff(inst) == [inst EXCEPT !.availability = FALSE]

\* product.availability = !product.dataValues.availability
Toggled(inst) == [inst EXCEPT !.availability = ~inst.availability]

\* Variant of WriteAvailability: the row is inserted when it is not there.
WriteAvailabilityUpsert(rows, inst) ==
    IF inst.id \in IdsOf(rows)
    THEN [k \in 1..Len(rows) |->
            IF rows[k].id = inst.id
            THEN [rows[k] EXCEPT !.availability = inst.availability]
            ELSE rows[k]]
    ELSE Append(rows, inst)

\* Variant of WriteAvailability: the table negates the value it holds
\* (UPDATE ... SET availability = NOT availability).
WriteAvailabilityAtomic(rows, inst) ==
    [k \in 1..Len(rows) |->
        IF rows[k].id = inst.id
        THEN [rows[k] EXCEPT !.availability = ~rows[k].availability]
        ELSE rows[k]]

\* product.save() after the toggle: availability is the one changed attribute,
\* so it is the one column written (UPDATE ... WHERE id = ?).
WriteAvailability(rows, inst) ==
    [k \in 1..Len(rows) |->
        IF rows[k].id = inst.id
        THEN [rows[k] EXCEPT !.availability = inst.availability]
        ELSE rows[k]]

\* product.destroy(): DELETE ... WHERE id = ?
DestroyRow(rows, inst) == SelectSeq(rows, LAMBDA q : q.id # inst.id)

(* ----------------------------- responses ------------------------------ *)

NoRes == [status |-> 0, kind |-> "none", errors |-> <<>>, text |-> "", data |-> <<>>]

errorStatus == 400

\* res.status(400).json({errors: errors.array()})
ErrorsRes(errors) ==
    [status |-> errorStatus, kind |-> "errors", errors |-> errors, text |-> "",
     data |-> <<>>]

\* res.status(404).json({error: "Producto No Encontrado"})
NotFoundRes ==
    [status |-> 404, kind |-> "error", errors |-> <<>>,
     text |-> "Producto No Encontrado", data |-> <<>>]

\* res.status(s).json({data: product})
ProductRes(s, product) ==
    [status |-> s, kind |-> "product", errors |-> <<>>, text |-> "",
     data |-> <<product>>]

\* res.status(200).json({data: products})
ListRes(products) ==
    [status |-> 200, kind |-> "list", errors |-> <<>>, text |-> "", data |-> products]

\* res.status(200).json({data: "Producto Eliminado"})
DeletedRes ==
    [status |-> 200, kind |-> "text", errors |-> <<>>, text |-> "Producto Eliminado",
     data |-> <<>>]

(* ------------------------------- state -------------------------------- *)
(* store      the products table                                           *)
(* nextId     next value of the table's id sequence                        *)
(* pending    per request slot, the handler suspended between its look-up  *)
(*            and its write: which handler, the instance findByPk gave it, *)
(*            and the request body                                         *)
(* req        the request whose handler ran in the current turn of the     *)
(*            event loop, and whether it was routed or resumed             *)
(* res        what that handler wrote to its response in this turn         *)
(*            (status 0: nothing)                                          *)
(* console    what it passed to console.log in this turn                   *)
(* processUp  the server process is running                                *)
(* lastPatch  history: the run of successful PATCH requests on one id that *)
(*            no other request on that id has interrupted (n of them, and  *)
(*            the stored availability before the first)                    *)
(* gone       history: the ids a DELETE request has answered 200 for and   *)
(*            no POST request has created since                            *)

Idle == [op |-> "none", product |-> NoRow, body |-> EmptyBody]

NoPatch == [id |-> 0, before |-> FALSE, n |-> 0]

NoReq == [method |-> "", seg |-> <<>>, body |-> EmptyBody, step |-> "", slot |-> 0]

Routed(r, method, seg, b) ==
    [method |-> method, seg |-> seg, body |-> b, step |-> "route", slot |-> r]

Resumed(r) ==
    [method |-> pending[r].op, seg |-> <<>>, body |-> pending[r].body,
     step |-> "resume", slot |-> r]

Init ==
    /\ store = <<>>
    /\ nextId = 1
    /\ pending = [r \in Reqs |-> Idle]
    /\ req = NoReq
    /\ res = NoRes
    /\ console = ""
    /\ processUp = TRUE
    /\ lastPatch = NoPatch
    /\ gone = {}

\* No handler is running: the previous turn of the event loop is over.
Quiet == processUp /\ req = NoReq

\* The turn ends: what the handler wrote is on its way to the client.
EndOfTurn ==
    /\ processUp
    /\ req # NoReq
    /\ req' = NoReq
    /\ res' = NoRes
    /\ console' = ""
    /\ UNCHANGED <<store, nextId, pending, processUp, lastPatch, gone>>

\* A request on id ends the run of PATCH requests recorded for that id.
Interrupt(id) == lastPatch' = IF lastPatch.id = id THEN NoPatch ELSE lastPatch

\* The handler of slot r returns having written response.
Respond(r, response) ==
    /\ res' = response
    /\ console' = ""
    /\ pending' = [pending EXCEPT ![r] = Idle]
    /\ processUp' = processUp

\* The handler of slot r is suspended at its next persistence call.
Await(r, op, product, b) ==
    /\ res' = NoRes
    /\ console' = ""
    /\ pending' = [pending EXCEPT ![r] = [op |-> op, product |-> product, body |-> b]]
    /\ processUp' = processUp

\* Variant of CatchError: no catch block, the rejection ends the process.
Uncaught(r) ==
    /\ res' = NoRes
    /\ console' = "error"
    /\ pending' = [pending EXCEPT ![r] = Idle]
    /\ processUp' = FALSE

\* catch (error) { console.log(error) }: the handler returns, nothing is
\* written to the response, the process goes on.
CatchError(r) ==
    /\ res' = NoRes
    /\ console' = "error"
    /\ pending' = [pending EXCEPT ![r] = Idle]
    /\ processUp' = processUp

\* Variant of handleInputErrors: next() is called whatever the errors.
AlwaysNext(errors, r, next) == next

\* handleInputErrors: 400 with the collected errors, or next().
handleInputErrors(errors, r, next) ==
    IF errors # <<>>
    THEN /\ Respond(r, ErrorsRes(errors))
         /\ UNCHANGED <<store, nextId, lastPatch, gone>>
    ELSE next

(* ------------------------------ handlers ------------------------------ *)

\* GET /
getProducts(r) ==
    /\ Quiet
    /\ pending[r] = Idle
    /\ req' = Routed(r, "GET /", <<>>, EmptyBody)
    /\ \E ok \in BOOLEAN :
          IF ok THEN Respond(r, ListRes(findAllDesc(store))) ELSE CatchError(r)
    /\ UNCHANGED <<store, nextId, lastPatch, gone>>

\* The table reads the id it is handed only if it spells an integer.
Readable(seg) == isInt(seg)

\* GET /:id
getProductByIdHandler(r, seg) ==
    LET id == ToNumber(seg)
        product == findByPk(store, id)
    IN  /\ \E ok \in BOOLEAN :
              IF ~(ok /\ Readable(seg)) THEN CatchError(r)
              ELSE IF product = NoRow THEN Respond(r, NotFoundRes)
              ELSE Respond(r, ProductRes(200, product))
        /\ Interrupt(id)
        /\ UNCHANGED <<store, nextId, gone>>

getProductById(r, seg) ==
    /\ Quiet
    /\ pending[r] = Idle
    /\ req' = Routed(r, "GET /:id", seg, EmptyBody)
    /\ handleInputErrors(GetByIdErrors(seg), r, getProductByIdHandler(r, seg))

\* POST /
createProductHandler(r, b) ==
    LET product == NewRow(b, nextId)
    IN  /\ b.id # <<>> \/ nextId <= MaxId
        /\ \E ok \in BOOLEAN :
              IF ok /\ InsertAccepted(store, b, product)
              THEN /\ store' = Append(store, product)
                   /\ Respond(r, ProductRes(200, product))
                   /\ gone' = gone \ {product.id}
              ELSE /\ store' = store
                   /\ CatchError(r)
                   /\ gone' = gone
        /\ nextId' = IF b.id = <<>> THEN nextId + 1 ELSE nextId
        /\ Interrupt(product.id)

createProduct(r, b) ==
    /\ Quiet
    /\ pending[r] = Idle
    /\ req' = Routed(r, "POST /", <<>>, b)
    /\ handleInputErrors(PostErrors(b), r, createProductHandler(r, b))

\* The look-up all three writing handlers start with: 404 when there is no
\* such row, otherwise the handler goes on to its write with the instance.
FindThen(r, op, seg, b) ==
    LET id == ToNumber(seg)
        product == findByPk(store, id)
    IN  /\ \E ok \in BOOLEAN :
              IF ~(ok /\ Readable(seg)) THEN CatchError(r) /\ Interrupt(id)
              ELSE IF product = NoRow THEN Respond(r, NotFoundRes) /\ Interrupt(id)
              ELSE Await(r, op, product, b) /\ UNCHANGED lastPatch
        /\ UNCHANGED <<store, nextId, gone>>

\* PUT /:id, up to findByPk
updateProductFind(r, seg, b) ==
    /\ Quiet
    /\ pending[r] = Idle
    /\ req' = Routed(r, "PUT /:id", seg, b)
    /\ handleInputErrors(PutErrors(seg, b), r, FindThen(r, "PUT /:id", seg, b))

\* PUT /:id, product.update(req.body); product.save()
updateProductWrite(r) ==
    LET product == SetFromBody(pending[r].product, pending[r].body)
    IN  /\ Quiet
        /\ pending[r].op = "PUT /:id"
        /\ req' = Resumed(r)
        /\ \E ok \in BOOLEAN :
              IF ok
              THEN /\ store' = WriteFields(store, product)
                   /\ Respond(r, ProductRes(200, product))
              ELSE /\ store' = store
                   /\ CatchError(r)
        /\ Interrupt(product.id)
        /\ UNCHANGED <<nextId, gone>>

\* PATCH /:id, up to findByPk
updateAvailabilityFind(r, seg) ==
    /\ Quiet
    /\ pending[r] = Idle
    /\ req' = Routed(r, "PATCH /:id", seg, EmptyBody)
    /\ handleInputErrors(PatchErrors(seg), r, FindThen(r, "PATCH /:id", seg, EmptyBody))

\* The run of PATCH requests after one more has succeeded on the instance's id.
PatchRun(rows, inst) ==
    IF inst.id \notin IdsOf(rows) THEN NoPatch
    ELSE IF lastPatch.id = inst.id /\ lastPatch.n = 1
         THEN [lastPatch EXCEPT !.n = 2]
         ELSE [id |-> inst.id, before |-> findByPk(rows, inst.id).availability,
               n |-> 1]

\* PATCH /:id, the toggle and product.save()
updateAvailabilityWrite(r) ==
    LET product == Toggled(pending[r].product)
    IN  /\ Quiet
        /\ pending[r].op = "PATCH /:id"
        /\ req' = Resumed(r)
        /\ \E ok \in BOOLEAN :
              IF ok
              THEN /\ store' = WriteAvailability(store, product)
                   /\ Respond(r, ProductRes(201, product))
                   /\ lastPatch' = PatchRun(store, product)
              ELSE /\ store' = store
                   /\ CatchError(r)
                   /\ Interrupt(product.id)
        /\ UNCHANGED <<nextId, gone>>

\* DELETE /:id, up to findByPk
deleteProductFind(r, seg) ==
    /\ Quiet
    /\ pending[r] = Idle
    /\ req' = Routed(r, "DELETE /:id", seg, EmptyBody)
    /\ handleInputErrors(DeleteErrors(seg), r, FindThen(r, "DELETE /:id", seg, EmptyBody))

\* DELETE /:id, product.destroy()
deleteProductDestroy(r) ==
    /\ Quiet
    /\ pending[r].op = "DELETE /:id"
    /\ req' = Resumed(r)
    /\ \E ok \in BOOLEAN :
          IF ok
          THEN /\ store' = DestroyRow(store, pending[r].product)
               /\ Respond(r, DeletedRes)
               /\ gone' = gone \cup {pending[r].product.id}
          ELSE /\ store' = store
               /\ CatchError(r)
               /\ gone' = gone
    /\ Interrupt(pending[r].product.id)
    /\ UNCHANGED nextId

(* --------------------------- specifications --------------------------- *)

\* The router: a request arrives in slot r, its path segment and body drawn
\* from segs and bodies.
Arrive(r, segs, bodies) ==
    \/ getProducts(r)
    \/ \E seg \in segs : getProductById(r, seg)
    \/ \E b \in bodies : createProduct(r, b)
    \/ \E seg \in segs, b \in bodies : updateProductFind(r, seg, b)
    \/ \E seg \in segs : updateAvailabilityFind(r, seg)
    \/ \E seg \in segs : deleteProductFind(r, seg)

\* A suspended handler resumes.
Resume(r) ==
    \/ updateProductWrite(r)
    \/ updateAvailabilityWrite(r)
    \/ deleteProductDestroy(r)

AllIdle == \A r \in Reqs : pending[r] = Idle

\* Requests served one after the other, with every input.
NextSeq ==
    \/ AllIdle /\ Arrive(1, Segments, Bodies)
    \/ Resume(1)
    \/ EndOfTurn

Spec == Init /\ [][NextSeq]_vars

\* Inputs of the concurrent runs: requests that pass validation.
ConcSegments == {NatStr(i) : i \in Ids}

ConcBodies ==
    {BodyOf(item, <<TrueStr>>, i) : item \in Catalogue, i \in {<<>>, <<NatStr(MaxId)>>}}

\* Requests served concurrently: any request may arrive or resume at any time.
NextConc ==
    \/ \E r \in Reqs : Arrive(r, ConcSegments, ConcBodies)
    \/ \E r \in Reqs : Resume(r)
    \/ EndOfTurn

ConcSpec == Init /\ [][NextConc]_vars

(* ------------------------------ properties ---------------------------- *)

IdMethods == {"GET /:id", "PUT /:id", "PATCH /:id", "DELETE /:id"}

\* The rules of the route a request is sent to, applied to it.
RuleErrors(q) ==
    CASE q.method = "GET /:id" -> GetByIdErrors(q.seg)
      [] q.method = "POST /" -> PostErrors(q.body)
      [] q.method = "PUT /:id" -> PutErrors(q.seg, q.body)
      [] q.method = "PATCH /:id" -> PatchErrors(q.seg)
      [] q.method = "DELETE /:id" -> DeleteErrors(q.seg)
      [] OTHER -> <<>>

\* The ways an integer up to MaxId + 1 is spelled in a path.
IntegerSpellings ==
    UNION {{NatStr(n), <<"+">> \o NatStr(n), <<"-">> \o NatStr(n)} : n \in 0..(MaxId + 1)}

\* The handler of the routed request q ran: it answered, logged a failure,
\* or is suspended at its write.
HandlerRan(q) ==
    \/ console' = "error"
    \/ q.method \in {"GET /:id", "POST /"} /\ res'.status \in {200, 404}
    \/ q.method \in {"PUT /:id", "PATCH /:id", "DELETE /:id"}
       /\ (res'.status = 404 \/ pending'[q.slot].op = q.method)

\* C1: on a route with validators, a request that fails a rule (a non-integer
\* id segment in particular) is answered 400 with the list of errors, its
\* handler does not run and the store is neither read nor written; a request
\* that fails no rule reaches its handler.
C1_ValidationGate ==
    [][(req'.step = "route" /\ req'.method # "GET /") =>
          /\ (req'.method \in IdMethods /\ req'.seg \notin IntegerSpellings)
                => res'.status = 400
          /\ IF RuleErrors(req') # <<>>
             THEN /\ res'.status = 400
                  /\ res'.kind = "errors"
                  /\ res'.errors = RuleErrors(req')
                  /\ console' = ""
                  /\ store' = store
                  /\ nextId' = nextId
                  /\ pending' = pending
             ELSE /\ res'.status # 400
                  /\ HandlerRan(req')]_vars

C1_Witness ==
    /\ req.step = "route"
    /\ req.method = "DELETE /:id"
    /\ req.seg = <<"1", ".", "5">>
    /\ res.status = 400
    /\ store # <<>>

\* C2: a request for an integer id that has no row is answered 404 with
\* {error: "Producto No Encontrado"} by each of the four handlers that take
\* an id, and the store is left as it was.
C2_NotFound ==
    [][(/\ req'.step = "route"
        /\ req'.method \in IdMethods
        /\ RuleErrors(req') = <<>>
        /\ ToNumber(req'.seg) \notin IdsOf(store)
        /\ console' = "") =>
          /\ res'.status = 404
          /\ res'.kind = "error"
          /\ res'.text = "Producto No Encontrado"
          /\ store' = store
          /\ pending' = pending]_vars

C2_Witness ==
    /\ req.step = "route"
    /\ req.method = "PATCH /:id"
    /\ res.status = 404
    /\ store # <<>>

\* C3: a creation request that passes validation is answered with a record
\* which, fetched by its id, has the submitted name and price and
\* availability true.
C3_CreateThenGet ==
    [][(req'.method = "POST /" /\ res'.status = 200) =>
          LET created == res'.data[1]
              fetched == findByPk(store', created.id)
          IN  /\ fetched # NoRow
              /\ fetched.name = req'.body.name[1]
              /\ fetched.price = ToNumber(req'.body.price[1])
              /\ fetched.availability = TRUE]_vars

C5_DeletedStaysGone ==
    [][/\ gone' \cap IdsOf(store') = {}
       /\ (req'.step = "resume" /\ req'.method = "DELETE /:id" /\ console' = "") =>
             /\ res'.status = 200
             /\ res'.text = "Producto Eliminado"
             /\ pending[req'.slot].product.id \in gone'
       /\ ~(gone \subseteq gone') =>
             /\ req'.method = "POST /"
             /\ res'.status = 200
             /\ gone \ gone' = {res'.data[1].id}
       /\ (/\ req'.step = "route"
           /\ req'.method \in IdMethods
           /\ ToNumber(req'.seg) \in gone
           /\ console' = "") =>
             /\ res'.status = 404
             /\ store' = store
             /\ pending' = pending]_vars

C5_Witness ==
    /\ req.step = "route"
    /\ req.method = "GET /:id"
    /\ ToNumber(req.seg) \in gone
    /\ res.status = 404
    /\ store # <<>>

\* C6: the list request is answered 200 with the rows of the store, each
\* once, in strictly descending order of id, whatever order they were
\* inserted in.
C6_ListDescending ==
    (req.method = "GET /" /\ console = "") =>
        /\ res.status = 200
        /\ res.kind = "list"
        /\ \A k \in 1..(Len(res.data) - 1) : res.data[k].id > res.data[k + 1].id
        /\ RowsOf(res.data) = RowsOf(store)
        /\ Len(res.data) = Len(store)

C6_Witness ==
    /\ req.method = "GET /"
    /\ Len(store) = 2
    /\ Len(res.data) = 2
    /\ store[1].id < store[2].id

\* C7: every row of the store has a price above zero and a name that is not
\* empty.
C7_StoredRowsValid ==
    \A p \in RowsOf(store) : p.price > 0 /\ Len(p.name) > 0

C7_Witness ==
    /\ req.method = "PUT /:id"
    /\ req.step = "resume"
    /\ res.status = 200
    /\ res.data[1].price = 2

\* C8: the write of a PATCH is the negation of the availability the request
\* read, whatever the row holds by then, and is answered 201: the later of
\* two concurrent toggles overwrites the earlier.
C8_LastWriteWins ==
    [][(req'.step = "resume" /\ req'.method = "PATCH /:id" /\ console' = "") =>
          LET inst == pending[req'.slot].product
          IN  /\ res'.status = 201
              /\ res'.data[1].availability = ~inst.availability
              /\ inst.id \in IdsOf(store) =>
                    findByPk(store', inst.id).availability = ~inst.availability]_vars

\* Two PATCH requests on one id have been answered 201, no other request on
\* that id between them, and the availability is flipped once.
C8_LostUpdate ==
    /\ lastPatch.n = 2
    /\ lastPatch.id \in IdsOf(store)
    /\ findByPk(store, lastPatch.id).availability # lastPatch.before
    /\ res.status = 201

\* C9: a handler whose persistence call fails logs the failure and writes no
\* response; the store, the other requests and the process are unaffected.
C9_ErrorsOnlyLogged ==
    [][/\ processUp'
       /\ console' = "error" =>
             /\ res' = NoRes
             /\ res'.status = 0
             /\ store' = store
             /\ pending'[req'.slot] = Idle
             /\ \A r \in Reqs \ {req'.slot} : pending'[r] = pending[r]]_vars

C9_Witness ==
    /\ console = "error"
    /\ req.step = "resume"
    /\ req.method = "PUT /:id"
    /\ \E r \in Reqs : pending[r] # Idle

\* No PUT or PATCH request changes the id of a row, whatever its body; a
\* successful one changes no row but the one it was sent to, and a PATCH
\* leaves that row's name and price as they were.
UpdatesKeepId ==
    req'.method \in {"PUT /:id", "PATCH /:id"} =>
        /\ Len(store') = Len(store)
        /\ \A k \in 1..Len(store) : store'[k].id = store[k].id
        /\ (req'.step = "resume" /\ console' = "") =>
              LET inst == pending[req'.slot].product
              IN  /\ res'.data[1].id = inst.id
                  /\ \A k \in 1..Len(store) :
                        store[k].id # inst.id => store'[k] = store[k]
                  /\ req'.method = "PATCH /:id" =>
                        \A k \in 1..Len(store) :
                           /\ store'[k].name = store[k].name
                           /\ store'[k].price = store[k].price

\* The id of a created row is the one the table's sequence generated for it.
CreatedIdGenerated ==
    (req'.method = "POST /" /\ res'.status = 200) =>
        /\ res'.data[1].id = nextId
        /\ res'.data[1].id \in IdsOf(store') \ IdsOf(store)

\* C10: the id of a row is generated by the persistence layer when the row is
\* created and never changes afterwards: no PUT or PATCH request changes an
\* id, a successful one changes no row but the one it was sent to, and a PATCH
\* leaves that row's name and price as they were.
C10_IdGeneratedAndImmutable ==
    [][CreatedIdGenerated /\ UpdatesKeepId]_vars
====
